---- MODULE Spec2Model ----
(***************************************************************************)
(* Model of the trading agent's risk engine (src/risk/risk_manager.py), of *)
(* its orchestration loop and tool dispatcher (src/live_main.py), and of   *)
(* the journal, the notes and the simulated portfolio (src/analysis,       *)
(* src/portfolio).                                                         *)
(*                                                                         *)
(* The specifications below share the definitions of the module:           *)
(*   SpecRisk  any sequence of RiskManager.validate_order calls, with the  *)
(*             values read from the market and portfolio collaborators     *)
(*             drawn afresh on every call, and the clock advancing;        *)
(*   Spec      LiveTrader.run: scheduler, run_agent_loop, handle_tool_calls *)
(*             and the place_trade_orders handler calling validate_order;  *)
(*   SpecLoop  the same program driven by a model that asks for a tool on  *)
(*             every turn, with the fairness of its single thread;         *)
(*   SpecLog   the same program with the remote logger configured, and    *)
(*             the threads of CloudLog.log running beside it;             *)
(*   SpecBroker  the same program against a brokerage whose submit_order   *)
(*             may fail;                                                   *)
(*   SpecStop  the same program with a signal arriving at any point, and   *)
(*             the fairness of its single thread;                          *)
(*   SpecJournal, SpecNotes, SpecPortfolio  any sequence of calls on a     *)
(*             TradingJournal, a TradingNotes, a simulated Portfolio.      *)
(***************************************************************************)
EXTENDS Integers, Sequences, FiniteSets, TLC

(***************************************************************************)
(* Program constants.                                                      *)
(***************************************************************************)
min_notional == 5000
max_notional == 25000
max_position_pct == 20
cooldown_minutes == 30

(***************************************************************************)
(* Bounds of the model.  The clock counts minutes and advances ClockStep   *)
(* minutes at a time up to MaxTime.                                        *)
(***************************************************************************)
MaxTime == 30
ClockStep == 10

Tickers == {"AAPL", "MSFT"}

\* a ticker in the letter case the model may write it in as well
LowerCase == {"msft"}

\* the keys last_trade_times can come to hold
Keys == Tickers \cup LowerCase

\* str.upper(), on the tickers and the actions of the model
upper(ticker) ==
    CASE ticker = "aapl" -> "AAPL"
      [] ticker = "msft" -> "MSFT"
      [] OTHER -> ticker
Actions == {"BUY", "SELL", "HOLD"}
ShareCounts == {20, 100, 200}

\* market.get_price: None (or 0.0) is NoPrice
NoPrice == 0
Prices == {NoPrice, 150, 250}
PortfolioValues == {100000}
CashValues == {10000, 85000, 100000}
OwnedShares == {0, 20, 100}

\* last_trade_times.get(ticker) is None
NoTime == -1

\* the collaborator call of validate_order that raises, if any
NoFault == "none"
Faults == {"get_price", "get_total_value", "get_cash", "get_positions"}

(***************************************************************************)
(* The outside world at one validate_order call: the quote, the account    *)
(* and the holding of the order's ticker, and which collaborator call, if  *)
(* any, raises instead of returning its value.                             *)
(***************************************************************************)
EnvOutcomes ==
    [price : Prices, value : PortfolioValues, cash : CashValues,
     owned : OwnedShares, fault : {NoFault} \cup Faults]

Orders == [ticker : Tickers, action : Actions, shares : ShareCounts]

NoOrder == [ticker |-> "", action |-> "", shares |-> 0]
NoEnv == [price |-> 0, value |-> 0, cash |-> 0, owned |-> 0, fault |-> NoFault]

VARIABLES
    now,               \* datetime.now(), in minutes
    last_trade_times,  \* RiskManager.last_trade_times: ticker -> time or NoTime
    riskPc,            \* "idle" | "called": a validate_order call is pending
    call,              \* the pending or the last finished validate_order call
    lastBuy,           \* per ticker, when its last approved BUY was approved
    lastOk,            \* per ticker, when its last approved order was approved
    running,           \* LiveTrader.running
    pc,                \* where run() is: loop, request, dispatch, orders, done
                       \* (run_agent_loop returned), sleep (at line 203), tick
                       \* (in time.sleep(1)), exit (run returned), crashed (an
                       \* exception left run)
    cycle,             \* cycles started so far
    turn,              \* run_agent_loop: the loop variable
    messages,          \* run_agent_loop: the conversation history
    tool_calls,        \* handle_tool_calls: the calls of the assistant message
    tcIdx,             \* handle_tool_calls: index of the call being served
    submitted,         \* place_trade_orders: args['trades'] as the model wrote it
    trades,            \* place_trade_orders: the list the loop runs over
    ordIdx,            \* place_trade_orders: index of the order being handled
    res_content,       \* handle_tool_calls: the result text being built
    handler,           \* the handler of the current call: idle, running,
                       \* finished, raised
    validated,         \* orders passed to validate_order by the current call
    executed,          \* orders passed to portfolio.execute_trade by it
    journaled,         \* orders passed to journal.log_trade by it
    callsIssued,       \* tool calls the model has issued so far
    nExecuted,         \* execute_trade calls of the current cycle
    agent,             \* the model behind self.agent: "free" writes any of
                       \* the responses below, "polling" asks for one price
                       \* on every turn for as long as it asks for tools
    nRequests,         \* chat.completions.create calls of the current cycle
    nDispatches,       \* handle_tool_calls invocations of the current cycle
    sleepLeft,         \* iterations left of the sleep loop of lines 202-204
    response,          \* what the last chat.completions.create call of the
                       \* cycle came to: none, fault, empty, text, tool_calls
    market,            \* what is_market_open() last returned: unpolled, open,
                       \* closed
    tools,             \* run_agent_loop: the tool catalog of the cycle
    cloud_client,      \* CloudLog.client is set (SUPABASE_URL and _KEY given)
    log_threads,       \* the _send threads started and not yet finished
    brokerage,         \* "up": submit_order returns; "flaky": it may raise
    unfilled,          \* the tickers whose last buy order passed to
                       \* execute_trade was not placed
    earlySignal,       \* the signal came during a cycle, before its first
                       \* model request
    journal,           \* a TradingJournal, its table and its local file
    notes,             \* a TradingNotes and the row of trading_notes
    sim_portfolio      \* a Portfolio of portfolio/portfolio.py

riskVars == <<riskPc, call, lastBuy, lastOk>>

callVars == <<submitted, trades, ordIdx, res_content, handler, validated,
              executed, journaled>>

liveVars == <<running, pc, cycle, turn, messages, tool_calls, tcIdx, submitted,
              trades, ordIdx, res_content, handler, validated, executed,
              journaled, callsIssued, nExecuted, agent, nRequests, nDispatches,
              sleepLeft, response, market, tools, cloud_client, log_threads,
              unfilled, earlySignal>>

\* what run() and the dispatcher of the model never touch
apartVars == <<brokerage, journal, notes, sim_portfolio>>

vars == <<now, last_trade_times, riskPc, call, lastBuy, lastOk, running, pc,
          cycle, turn, messages, tool_calls, tcIdx, submitted, trades, ordIdx,
          res_content, handler, validated, executed, journaled, callsIssued,
          nExecuted, agent, nRequests, nDispatches, sleepLeft, response,
          market, tools, cloud_client, log_threads, brokerage, unfilled,
          earlySignal, journal, notes, sim_portfolio>>

(***************************************************************************)
(* RiskManager.validate_order                                              *)
(***************************************************************************)
R_PRICE == "Could not fetch price"
R_MIN == "Notional < Min"
R_MAX == "Notional > Max"
R_CASH == "Insufficient cash"
R_EXPOSURE == "Exposure violation"
R_COOLDOWN == "Cooldown active"
R_OWN == "Cannot sell"
R_ERROR == "Risk Validation Error"
R_OK == "Trade Approved"

Notional(shares, price) == shares * price

SizeReason_min_only(notional) ==
    IF notional < min_notional THEN R_MIN ELSE R_OK

\* lines 30-34: the size constraints
SizeReason(notional) ==
    IF notional < min_notional THEN R_MIN
    ELSE IF notional > max_notional THEN R_MAX
    ELSE R_OK

InsufficientCash_ignored(notional, cash) == FALSE

\* line 39
InsufficientCash(notional, cash) == notional > cash

ExposureViolation_order_only(current_shares, price, notional, portfolio_val) ==
    notional * 100 > portfolio_val * max_position_pct

\* lines 44-45: new_total_value > portfolio_val * max_position_pct
ExposureViolation(current_shares, price, notional, portfolio_val) ==
    (current_shares * price + notional) * 100 > portfolio_val * max_position_pct

\* total_seconds() compared with the window in minutes
CooldownActive_seconds(last_time, t) ==
    /\ last_time # NoTime
    /\ (t - last_time) * 60 < cooldown_minutes

CooldownActive_inclusive(last_time, t) ==
    /\ last_time # NoTime
    /\ t - last_time <= cooldown_minutes

\* lines 49-52: an entry exists and fewer than cooldown_minutes have elapsed
CooldownActive(last_time, t) ==
    /\ last_time # NoTime
    /\ t - last_time < cooldown_minutes

OwnershipViolation_inclusive(shares, owned_shares) == shares >= owned_shares

OwnershipViolation_held_only(shares, owned_shares) ==
    owned_shares > 0 /\ shares > owned_shares

\* line 58
OwnershipViolation(shares, owned_shares) == shares > owned_shares

RecordTrade_skip(table, ticker, t) == table

\* line 62: last_trade_times[ticker] = datetime.now()
RecordTrade(table, ticker, t) == [table EXCEPT ![ticker] = t]

Raises_positions_swallowed(env, collaborator) ==
    env.fault = collaborator /\ collaborator # "get_positions"

\* the collaborator call raises when it is made: caught at lines 65-67
Raises(env, collaborator) == env.fault = collaborator

RiskChecks_reads_after_size(ticker, action, shares, env, table, t) ==
    IF Raises(env, "get_price") THEN R_ERROR
    ELSE IF env.price = NoPrice THEN R_PRICE
    ELSE LET notional_value == Notional(shares, env.price) IN
         IF SizeReason(notional_value) # R_OK THEN SizeReason(notional_value)
         ELSE IF Raises(env, "get_total_value") \/ Raises(env, "get_cash")
              THEN R_ERROR
         ELSE IF action = "BUY" THEN
              IF InsufficientCash(notional_value, env.cash) THEN R_CASH
              ELSE IF Raises(env, "get_positions") THEN R_ERROR
              ELSE IF ExposureViolation(env.owned, env.price, notional_value, env.value)
                   THEN R_EXPOSURE
              ELSE IF CooldownActive(table[ticker], t) THEN R_COOLDOWN
              ELSE R_OK
         ELSE IF action = "SELL" THEN
              IF Raises(env, "get_positions") THEN R_ERROR
              ELSE IF OwnershipViolation(shares, env.owned) THEN R_OWN
              ELSE R_OK
         ELSE R_OK

\* lines 20-59 and 65-67: the reason of the first check that fails, R_ERROR
\* when a collaborator call raises before that, R_OK when every check passes
RiskChecks(ticker, action, shares, env, table, t) ==
    IF Raises(env, "get_price") THEN R_ERROR
    ELSE IF env.price = NoPrice THEN R_PRICE
    ELSE IF Raises(env, "get_total_value") \/ Raises(env, "get_cash") THEN R_ERROR
    ELSE LET notional_value == Notional(shares, env.price) IN
         IF SizeReason(notional_value) # R_OK THEN SizeReason(notional_value)
         ELSE IF action = "BUY" THEN
              IF InsufficientCash(notional_value, env.cash) THEN R_CASH
              ELSE IF Raises(env, "get_positions") THEN R_ERROR
              ELSE IF ExposureViolation(env.owned, env.price, notional_value, env.value)
                   THEN R_EXPOSURE
              ELSE IF CooldownActive(table[ticker], t) THEN R_COOLDOWN
              ELSE R_OK
         ELSE IF action = "SELL" THEN
              IF Raises(env, "get_positions") THEN R_ERROR
              ELSE IF OwnershipViolation(shares, env.owned) THEN R_OWN
              ELSE R_OK
         ELSE R_OK

validate_order_early_write(ticker, action, shares, env, table, t) ==
    LET reason == RiskChecks(ticker, action, shares, env, table, t) IN
    [approved |-> reason = R_OK, reason |-> reason,
     table |-> RecordTrade(table, ticker, t)]

\* the call as a whole: (is_valid, rejection_reason) and the table it leaves
validate_order(ticker, action, shares, env, table, t) ==
    LET reason == RiskChecks(ticker, action, shares, env, table, t) IN
    IF reason = R_OK
    THEN [approved |-> TRUE, reason |-> R_OK, table |-> RecordTrade(table, ticker, t)]
    ELSE [approved |-> FALSE, reason |-> reason, table |-> table]

(***************************************************************************)
(* SpecRisk: any sequence of validate_order calls.                        *)
(***************************************************************************)
NoCall ==
    [order |-> NoOrder, env |-> NoEnv, done |-> FALSE, approved |-> FALSE,
     reason |-> "", at |-> 0, before |-> NoTime, prevBuy |-> NoTime,
     prevOk |-> NoTime]

InitRisk ==
    /\ now = 0
    /\ last_trade_times = [k \in Keys |-> NoTime]
    /\ riskPc = "idle"
    /\ call = NoCall
    /\ lastBuy = [k \in Tickers |-> NoTime]
    /\ lastOk = [k \in Tickers |-> NoTime]

\* time passes between two calls
Tick ==
    /\ riskPc = "idle"
    /\ now + ClockStep <= MaxTime
    /\ now' = now + ClockStep
    /\ UNCHANGED <<last_trade_times, riskPc, call, lastBuy, lastOk, liveVars, apartVars>>

\* a caller invokes validate_order(ticker, action, shares)
RiskCall ==
    /\ riskPc = "idle"
    /\ \E o \in Orders : call' = [NoCall EXCEPT !.order = o]
    /\ riskPc' = "called"
    /\ UNCHANGED <<now, last_trade_times, lastBuy, lastOk, liveVars, apartVars>>

\* the body of validate_order runs, reading its collaborators, and returns
RiskReturn ==
    /\ riskPc = "called"
    /\ \E env \in EnvOutcomes :
          LET o == call.order
              r == validate_order(o.ticker, o.action, o.shares, env,
                                  last_trade_times, now)
          IN /\ last_trade_times' = r.table
             /\ call' = [order |-> o, env |-> env, done |-> TRUE,
                         approved |-> r.approved, reason |-> r.reason, at |-> now,
                         before |-> last_trade_times[o.ticker],
                         prevBuy |-> lastBuy[o.ticker],
                         prevOk |-> lastOk[o.ticker]]
             /\ lastBuy' = IF r.approved /\ o.action = "BUY"
                           THEN [lastBuy EXCEPT ![o.ticker] = now]
                           ELSE lastBuy
             /\ lastOk' = IF r.approved
                          THEN [lastOk EXCEPT ![o.ticker] = now]
                          ELSE lastOk
    /\ riskPc' = "idle"
    /\ UNCHANGED <<now, liveVars, apartVars>>

NextRisk == Tick \/ RiskCall \/ RiskReturn

(***************************************************************************)
(* LiveTrader: the conversation and the tool calls the model can issue.    *)
(***************************************************************************)
MAX_TURNS == 10
MaxTradesPerCall == 3

\* bounds: cycles started, tool calls the model issues over the run (in one
\* assistant message or in several), orders it writes into one trades array
MaxCycles == 2
MaxToolCalls == 2
MaxBatch == 4

\* bound: the poll_interval iterations of the sleep loop, scaled down
PollTicks == 2

\* bound: the _send threads told apart; the count of the running threads
\* stays at this bound when more of them are started
MaxLogThreads == 2

\* cloud_log.py lines 12-34: CloudLog.log returns at once when no client is
\* set, and otherwise starts a _send thread and returns
CloudLog_log(threads, client) ==
    IF ~client THEN threads
    ELSE IF threads < MaxLogThreads THEN threads + 1 ELSE threads

\* an order object without a 'shares' key
Missing == -1

Order(ticker, action, shares) ==
    [ticker |-> ticker, action |-> action, shares |-> shares]

\* the trades arrays the model writes are the leading parts of these
SeedA ==
    <<Order("AAPL", "SELL", 100), Order("MSFT", "BUY", 200),
      Order("MSFT", "HOLD", 100), Order("AAPL", "BUY", 100),
      Order("AAPL", "SELL", 100)>>

\* a trades array whose first ticker is written in lower case and whose
\* second order cannot be read
BadBatch ==
    <<Order("msft", "BUY", 100), Order("MSFT", "SELL", Missing),
      Order("MSFT", "SELL", 200), Order("AAPL", "BUY", 100)>>

Min(a, b) == IF a < b THEN a ELSE b

\* no order, more orders than one call handles, an unreadable order
TradeBatches ==
    {SubSeq(SeedA, 1, n) : n \in {0, Min(MaxBatch, Len(SeedA))}} \cup {BadBatch}

\* the collaborator outcomes a validate_order call of the dispatcher meets
LiveEnvs ==
    [price : {NoPrice, 50}, value : {100000}, cash : {100000},
     owned : {100}, fault : {NoFault}]

\* positions.get(ticker, 0) at lines 44 and 57: the brokerage lists its
\* positions under their upper-case symbols
Held(env, ticker) ==
    [env EXCEPT !.owned = IF ticker \in Tickers THEN env.owned ELSE 0]

\* tc.function.arguments: a JSON text, which may not parse
Arguments(json, batch) == [json |-> json, trades |-> batch]

CallKinds ==
    {[name |-> "get_stock_price", arguments |-> Arguments(TRUE, <<>>)],
     [name |-> "get_stock_price", arguments |-> Arguments(FALSE, <<>>)]}
    \cup {[name |-> "place_trade_orders", arguments |-> Arguments(TRUE, b)] :
            b \in TradeBatches}

\* the tool-call lists of one assistant message, before ids are given
CallLists == UNION {[1..n -> CallKinds] : n \in 1..MaxToolCalls}

\* the tool-call lists of the polling model: one price request
PollingCalls == {<<c>> : c \in {k \in CallKinds : k.name = "get_stock_price"}}

\* the tool-call lists of the model that issues one call per response
SingleCalls == {<<c>> : c \in CallKinds}

\* the tool-call lists a response of the model may carry
CallsOf(model) == IF model = "free" THEN CallLists ELSE SingleCalls

\* lines 244-411: the names of the tool catalog
get_tools ==
    {"get_stock_price", "get_technical_indicators", "search_web",
     "calculate_risk_size", "scan_market_movers", "update_position_thesis",
     "place_trade_orders", "update_shared_notes", "get_active_sweeps",
     "get_option_price", "get_option_chain"}

\* msg.content of the responses without tool calls
Texts == {"no trade", "No Trade.", "hold"}

\* msg.content is None or empty
NoText == ""

\* the characters of a text
Letters(content) ==
    CASE content = "no trade" -> <<"n", "o", " ", "t", "r", "a", "d", "e">>
      [] content = "No Trade." -> <<"N", "o", " ", "T", "r", "a", "d", "e", ".">>
      [] content = "hold" -> <<"h", "o", "l", "d">>
      [] OTHER -> <<>>

lower_unchanged(chars) == chars

\* str.lower(), on the letters of Texts
lower(chars) ==
    [i \in 1..Len(chars) |->
        CASE chars[i] = "N" -> "n"
          [] chars[i] = "T" -> "t"
          [] OTHER -> chars[i]]

\* sub in chars
Contains(sub, chars) ==
    \E i \in 1..(Len(chars) - Len(sub) + 1) :
        SubSeq(chars, i, i + Len(sub) - 1) = sub

HeuristicStop_any_text(content) == TRUE

\* line 241: "no trade" in (msg.content or "").lower()
HeuristicStop(content) == Contains(Letters("no trade"), lower(Letters(content)))

NothingToDo_never(content, tcs) == FALSE

\* line 229: not msg.content and not msg.tool_calls
NothingToDo(content, tcs) == content = NoText /\ tcs = <<>>

Waits_never(poll) == FALSE

\* lines 99-102: the market is closed: sleep 900 s and poll again
Waits(poll) == poll = "closed"

TurnsLeft_one_more(t) == t <= MAX_TURNS

\* line 215: range(MAX_TURNS) has a value left for the loop variable
TurnsLeft(t) == t < MAX_TURNS

SleepEnds_uninterruptible(left, run) == left = 0

\* lines 202-203: the range is exhausted, or running is found false
SleepEnds(left, run) == left = 0 \/ ~run

WithIds(kinds, first) ==
    [i \in 1..Len(kinds) |->
        [id |-> first + i, name |-> kinds[i].name, arguments |-> kinds[i].arguments]]

Message(role, content, tcs, id) ==
    [role |-> role, content |-> content, tool_calls |-> tcs, tool_call_id |-> id]

InitialMessages_user_first ==
    <<Message("user", "user_prompt", <<>>, 0),
      Message("system", "system_prompt", <<>>, 0)>>

\* lines 207-210
InitialMessages ==
    <<Message("system", "system_prompt", <<>>, 0),
      Message("user", "user_prompt", <<>>, 0)>>

\* lines 643-647
ToolMessage(id, content) == Message("tool", content, <<>>, id)

CapTrades_keep_all(batch) == batch

\* lines 504-506
CapTrades(batch) ==
    IF Len(batch) > MaxTradesPerCall THEN SubSeq(batch, 1, MaxTradesPerCall) ELSE batch

ExecutesOrder_always(allowed) == TRUE

\* lines 513-520: an order is executed unless the risk check refused it
ExecutesOrder(allowed) == allowed

\* lines 537-538, as the history keeps it: of a tool result the history of
\* the model keeps the kind; res_content holds the text of the last one
FinalContent(reports) ==
    IF reports = <<>> THEN "All orders submitted" ELSE "rejections"

(***************************************************************************)
(* The brokerage: AlpacaPortfolio.execute_trade.                           *)
(***************************************************************************)
\* alpaca_portfolio.py line 40: the side of the market order
OrderSide(action) == IF upper(action) = "BUY" THEN "BUY" ELSE "SELL"

\* alpaca_portfolio.py lines 51-57: what execute_trade may return: True when
\* submit_order returns, False when it raises
SubmitOutcomes(state) == IF state = "up" THEN {TRUE} ELSE {TRUE, FALSE}

(***************************************************************************)
(* The trade journal: analysis/journal.py.                                 *)
(***************************************************************************)
\* journal.py line 48
LocalCap == 100

\* entries kept in a journal of the model
MaxEntries == 3

\* the trades that are journaled
JournalEntries == {Order(t, a, 100) : t \in Tickers, a \in {"BUY", "SELL"}}

\* lines 8-19: without credentials there is no client and the attribute
\* local_file is set; with credentials there is a client and no such
\* attribute.  remote is the table trade_journal, local the content of
\* trade_journal.json; entry, insert and outcome describe the last call of
\* log_trade.
TradingJournal(credentials) ==
    [client |-> credentials, local_file |-> ~credentials, remote |-> <<>>,
     local |-> <<>>, entry |-> NoOrder, insert |-> "none", outcome |-> "none"]

\* history[-n:]
LastOf(history, n) ==
    IF Len(history) <= n THEN history
    ELSE SubSeq(history, Len(history) - n + 1, Len(history))

\* lines 41-51: the read of line 43 is inside a try whose except starts an
\* empty history, also when self.local_file does not exist; the write of
\* line 50 is outside it
log_local(j, entry, readable, writable) ==
    LET history == IF j.local_file /\ readable THEN j.local ELSE <<>> IN
    IF j.local_file /\ writable
    THEN [j EXCEPT !.local = LastOf(Append(history, entry), LocalCap),
                   !.outcome = "returned"]
    ELSE [j EXCEPT !.outcome = "raised"]

\* lines 21-39
log_trade(j, entry, inserted, readable, writable) ==
    LET called == [j EXCEPT !.entry = entry,
                            !.insert = IF ~j.client THEN "none"
                                       ELSE IF inserted THEN "ok" ELSE "failed"]
    IN IF j.client /\ inserted
       THEN [called EXCEPT !.remote = Append(@, entry), !.outcome = "returned"]
       ELSE log_local(called, entry, readable, writable)

(***************************************************************************)
(* The strategy notes: analysis/notes.py.  The content of the one row of   *)
(* trading_notes is the sequence of its lines.                             *)
(***************************************************************************)
\* lines of a note in the model
MaxNoteLines == 4

\* args['content'] of update_shared_notes
NoteTexts == {"trim AAPL", "watch MSFT"}

\* notes.py line 13
Unavailable == "Notes unavailable (No Supabase connection)."

\* notes.py line 19
FetchError == "Error fetching notes"

\* lines 6-9; mode, text and read describe the last update_shared_notes call
TradingNotes(credentials) ==
    [client |-> credentials, content |-> <<>>, mode |-> "none", text |-> "",
     read |-> "none"]

\* lines 11-19
get_notes(n, readable) ==
    IF ~n.client THEN <<Unavailable>>
    ELSE IF readable THEN n.content ELSE <<FetchError>>

\* lines 21-31
update_notes(n, new_content, writable) ==
    IF n.client /\ writable THEN [n EXCEPT !.content = new_content] ELSE n

\* lines 33-37
append_notes(n, text_to_append, readable, writable) ==
    update_notes(n, Append(get_notes(n, readable), text_to_append), writable)

(***************************************************************************)
(* The simulated portfolio: portfolio/portfolio.py.                        *)
(***************************************************************************)
\* portfolio.py lines 13, 14 and 6
MIN_TRADE_AMOUNT == 5000
MAX_TRADE_AMOUNT == 25000
DefaultStartCash == 100000

\* execute_trade calls that succeed on one portfolio of the model
MaxSimTrades == 3

\* the start_cash of the portfolios of the model, and the arguments of the
\* execute_trade calls
StartCash == {30000, DefaultStartCash}
SimActions == {"BUY", "SELL", "HOLD"}
SimShares == {0, 100, 250}
SimPrices == {20, 100}

NoTrade == [ticker |-> "", action |-> "", shares |-> 0, price |-> 0]

\* a dict without entries
EmptyDict == [t \in {} |-> 0]

\* dict.get(key, 0)
Get(dict, key) == IF key \in DOMAIN dict THEN dict[key] ELSE 0

\* dict[key] = value
Put(dict, key, value) ==
    [k \in DOMAIN dict \cup {key} |-> IF k = key THEN value ELSE dict[k]]

\* del dict[key]
Del(dict, key) == [k \in DOMAIN dict \ {key} |-> dict[k]]

\* lines 6-14; trade and result describe the last execute_trade call
Portfolio(start_cash) ==
    [cash |-> start_cash, positions |-> EmptyDict, history |-> <<>>,
     trade |-> NoTrade, result |-> "none"]

V_OK == "Valid"
V_AMOUNT == "Trade amount must be positive."
V_CASH == "Insufficient cash"
V_MIN == "below minimum"
V_MAX == "exceeds maximum"
V_SHARES == "Insufficient shares"
V_MIN_SELL == "Sell amount below minimum (unless full exit)"
V_ACTION == "Unknown action"

validate_trade_unfunded(p, ticker, action, shares, price) ==
    LET amount == shares * price
        current_shares == Get(p.positions, ticker)
    IN IF amount <= 0 THEN V_AMOUNT
       ELSE IF upper(action) = "BUY" THEN
            IF amount < MIN_TRADE_AMOUNT THEN V_MIN
            ELSE IF amount > MAX_TRADE_AMOUNT THEN V_MAX
            ELSE V_OK
       ELSE IF upper(action) = "SELL" THEN
            IF shares > current_shares THEN V_SHARES
            ELSE IF shares # current_shares /\ amount < MIN_TRADE_AMOUNT
                 THEN V_MIN_SELL
            ELSE V_OK
       ELSE V_ACTION

\* lines 26-61: the message of validate_trade, V_OK for (True, "Valid")
validate_trade(p, ticker, action, shares, price) ==
    LET amount == shares * price
        current_shares == Get(p.positions, ticker)
    IN IF amount <= 0 THEN V_AMOUNT
       ELSE IF upper(action) = "BUY" THEN
            IF amount > p.cash THEN V_CASH
            ELSE IF amount < MIN_TRADE_AMOUNT THEN V_MIN
            ELSE IF amount > MAX_TRADE_AMOUNT THEN V_MAX
            ELSE V_OK
       ELSE IF upper(action) = "SELL" THEN
            IF shares > current_shares THEN V_SHARES
            ELSE IF shares # current_shares /\ amount < MIN_TRADE_AMOUNT
                 THEN V_MIN_SELL
            ELSE V_OK
       ELSE V_ACTION

\* lines 63-91
execute_trade(p, ticker, action, shares, price) ==
    LET trade == [ticker |-> ticker, action |-> action, shares |-> shares,
                  price |-> price]
        amount == shares * price
        left == Get(p.positions, ticker) - shares
        cash_after == IF upper(action) = "BUY" THEN p.cash - amount
                      ELSE p.cash + amount
    IN IF validate_trade(p, ticker, action, shares, price) # V_OK
       THEN [p EXCEPT !.trade = trade, !.result = "False"]
       ELSE [cash |-> cash_after,
             positions |->
                 IF upper(action) = "BUY"
                 THEN Put(p.positions, ticker, Get(p.positions, ticker) + shares)
                 ELSE IF left = 0 THEN Del(p.positions, ticker)
                 ELSE Put(p.positions, ticker, left),
             history |-> Append(p.history,
                                [ticker |-> ticker, action |-> action,
                                 shares |-> shares, price |-> price,
                                 amount |-> amount, cash_after |-> cash_after]),
             trade |-> trade, result |-> "True"]

\* line 516
Rejection(ticker, reason) == [ticker |-> ticker, reason |-> reason]

InitLive ==
    /\ running = TRUE
    /\ pc = "loop"
    /\ cycle = 0
    /\ turn = 0
    /\ messages = <<>>
    /\ tool_calls = <<>>
    /\ tcIdx = 0
    /\ submitted = <<>>
    /\ trades = <<>>
    /\ ordIdx = 0
    /\ res_content = <<>>
    /\ handler = "idle"
    /\ validated = <<>>
    /\ executed = <<>>
    /\ journaled = <<>>
    /\ callsIssued = 0
    /\ nExecuted = 0
    /\ nRequests = 0
    /\ nDispatches = 0
    /\ sleepLeft = 0
    /\ response = "none"
    /\ market = "unpolled"
    /\ tools = {}
    /\ unfilled = {}
    /\ earlySignal = FALSE

\* the remote logger is not configured: CloudLog.client is None
NoCloud ==
    /\ cloud_client = FALSE
    /\ log_threads = 0

\* submit_order never fails
BrokerUp == brokerage = "up"

\* the journal, the notes and the simulated portfolio as they are built
\* without credentials, and left alone
NoJournal == journal = TradingJournal(FALSE)
NoNotes == notes = TradingNotes(FALSE)
NoSim == sim_portfolio = Portfolio(DefaultStartCash)
Apart == BrokerUp /\ NoJournal /\ NoNotes /\ NoSim

Init == InitRisk /\ InitLive /\ NoCloud /\ Apart /\ agent = "free"

SpecRisk == Init /\ [][NextRisk]_vars

\* nothing of the previous tool call is kept
ResetCall ==
    /\ submitted' = <<>>
    /\ trades' = <<>>
    /\ ordIdx' = 0
    /\ res_content' = <<>>
    /\ handler' = "idle"
    /\ validated' = <<>>
    /\ executed' = <<>>
    /\ journaled' = <<>>

Signal_stops_cycle ==
    /\ pc \notin {"exit", "crashed"}
    /\ running
    /\ running' = FALSE
    /\ earlySignal' = (pc = "request" /\ nRequests = 0)
    /\ pc' = IF pc \in {"request", "dispatch", "orders"} THEN "done" ELSE pc
    /\ UNCHANGED <<now, last_trade_times, riskVars, apartVars, unfilled, cycle,
                   turn, messages, tool_calls, tcIdx, callVars, callsIssued,
                   nExecuted, agent, nRequests, nDispatches, sleepLeft,
                   response, market, tools, cloud_client, log_threads>>

\* SIGINT: signal_handler, lines 65-67
Signal ==
    /\ pc \notin {"exit", "crashed"}
    /\ running
    /\ running' = FALSE
    /\ earlySignal' = (pc = "request" /\ nRequests = 0)
    /\ UNCHANGED <<now, last_trade_times, riskVars, apartVars, unfilled, pc, cycle, turn, messages,
                   tool_calls, tcIdx, callVars, callsIssued, nExecuted, agent,
                   nRequests, nDispatches, sleepLeft, response, market, tools,
                   cloud_client, log_threads>>

\* time passes while run() sleeps; once running is false the sleep loop is
\* left within a second, which the clock, in minutes, does not see
TimePasses ==
    /\ pc = "sleep"
    /\ running
    /\ now + ClockStep <= MaxTime
    /\ now' = now + ClockStep
    /\ UNCHANGED <<last_trade_times, riskVars, liveVars, apartVars>>

\* lines 95-198: one pass of the while loop up to the call of run_agent_loop
StartIteration ==
    /\ pc = "loop"
    /\ \/ /\ ~running
          /\ pc' = "exit"
          /\ UNCHANGED <<cycle, turn, messages, nExecuted, nRequests,
                         nDispatches, market, tools>>
       \/ \* is_market_open() raises: nothing catches it
          /\ running
          /\ pc' = "crashed"
          /\ UNCHANGED <<cycle, turn, messages, nExecuted, nRequests,
                         nDispatches, market, tools>>
       \/ \* is_market_open() returns
          /\ running
          /\ \E poll \in {"open", "closed"} :
                /\ market' = poll
                /\ IF Waits(poll)
                   THEN UNCHANGED <<pc, cycle, turn, messages, nExecuted,
                                    nRequests, nDispatches, tools>>
                   ELSE \/ \* a context call of lines 105-111 raises: nothing
                           \* catches it
                           /\ pc' = "crashed"
                           /\ UNCHANGED <<cycle, turn, messages, nExecuted,
                                          nRequests, nDispatches, tools>>
                        \/ \* the context is gathered and run_agent_loop is
                           \* called: lines 105-212
                           /\ cycle < MaxCycles
                           /\ cycle' = cycle + 1
                           /\ messages' = InitialMessages
                           /\ tools' = get_tools
                           /\ turn' = 0
                           /\ nExecuted' = 0
                           /\ nRequests' = 0
                           /\ nDispatches' = 0
                           /\ pc' = "request"
    /\ ResetCall
    /\ UNCHANGED <<now, last_trade_times, riskVars, apartVars, unfilled, earlySignal, running, tool_calls, tcIdx,
                   callsIssued, agent, sleepLeft, response, cloud_client,
                   log_threads>>

OnApiError_retry ==
    /\ pc' = "request"
    /\ turn' = turn + 1

\* lines 223-225: the exception is logged and the loop is left
OnApiError ==
    /\ pc' = "done"
    /\ turn' = turn

\* lines 215-242: one pass of the for loop up to the call of handle_tool_calls
ModelRequest ==
    /\ pc = "request"
    /\ \/ \* range(MAX_TURNS) is exhausted
          /\ ~TurnsLeft(turn)
          /\ pc' = "done"
          /\ UNCHANGED <<turn, messages, tool_calls, tcIdx, callsIssued,
                         nRequests, nDispatches, response>>
       \/ \* the request raises: lines 216-225
          /\ TurnsLeft(turn)
          /\ nRequests' = nRequests + 1
          /\ response' = "fault"
          /\ OnApiError
          /\ UNCHANGED <<messages, tool_calls, tcIdx, callsIssued, nDispatches>>
       \/ \* a message without tool calls: lines 227-232 and 237-242
          /\ TurnsLeft(turn)
          /\ nRequests' = nRequests + 1
          /\ \E content \in Texts \cup {NoText} :
                /\ response' = IF content = NoText THEN "empty" ELSE "text"
                /\ IF NothingToDo(content, <<>>)
                   THEN /\ pc' = "done"
                        /\ UNCHANGED <<turn, messages>>
                   ELSE /\ messages' = Append(messages,
                                         Message("assistant", content, <<>>, 0))
                        /\ IF HeuristicStop(content)
                           THEN pc' = "done" /\ turn' = turn
                           ELSE \* the loop goes on; the model explored writes
                                \* such text only in cycles in which it calls
                                \* no tool
                                /\ messages[Len(messages)].role # "tool"
                                /\ pc' = pc
                                /\ turn' = turn + 1
          /\ UNCHANGED <<tool_calls, tcIdx, callsIssued, nDispatches>>
       \/ \* tool calls: lines 232-235
          /\ TurnsLeft(turn)
          /\ nRequests' = nRequests + 1
          /\ nDispatches' = nDispatches + 1
          /\ response' = "tool_calls"
          /\ messages[Len(messages)].content \notin Texts
          /\ \/ /\ agent # "polling"
                /\ \E kinds \in CallsOf(agent) :
                      /\ callsIssued + Len(kinds) <= MaxToolCalls
                      /\ tool_calls' = WithIds(kinds, callsIssued)
                      /\ callsIssued' = callsIssued + Len(kinds)
             \/ /\ agent = "polling"
                /\ \E kinds \in PollingCalls :
                      tool_calls' = WithIds(kinds, Len(messages))
                /\ UNCHANGED callsIssued
          /\ messages' = Append(messages,
                            Message("assistant", "", tool_calls', 0))
          /\ tcIdx' = 1
          /\ pc' = "dispatch"
          /\ UNCHANGED turn
    /\ ResetCall
    /\ UNCHANGED <<now, last_trade_times, riskVars, apartVars, unfilled, earlySignal, running, cycle, nExecuted,
                   agent, sleepLeft, market, tools, cloud_client, log_threads>>

Answer_last_first(content) ==
    /\ messages' = Append(messages,
                      ToolMessage(tool_calls[Len(tool_calls) + 1 - tcIdx].id,
                                  content))
    /\ IF tcIdx = Len(tool_calls)
       THEN pc' = "request" /\ turn' = turn + 1 /\ tcIdx' = tcIdx
       ELSE pc' = "dispatch" /\ turn' = turn /\ tcIdx' = tcIdx + 1

\* lines 643-647, then the next pass of the loop of line 414 or, after the
\* last call, the return to run_agent_loop and its next turn
Answer(content) ==
    /\ messages' = Append(messages, ToolMessage(tool_calls[tcIdx].id, content))
    /\ IF tcIdx = Len(tool_calls)
       THEN pc' = "request" /\ turn' = turn + 1 /\ tcIdx' = tcIdx
       ELSE pc' = "dispatch" /\ turn' = turn /\ tcIdx' = tcIdx + 1

Raise_propagates ==
    /\ pc' = "crashed"
    /\ res_content' = <<>>
    /\ handler' = "raised"
    /\ UNCHANGED <<messages, turn, tcIdx, ordIdx, log_threads>>

\* lines 638-647: the exception ends the handler, is logged and becomes the
\* result of the call
Raise ==
    /\ Answer("Tool Error")
    /\ res_content' = <<>>
    /\ handler' = "raised"
    /\ ordIdx' = ordIdx
    /\ log_threads' = CloudLog_log(log_threads, cloud_client)

\* lines 414-508 and 540-647: one tool call, up to the loop over the trades
DispatchToolCall ==
    /\ pc = "dispatch"
    /\ LET tc == tool_calls[tcIdx] IN
       \/ \* line 416: json.loads raises, outside the try of line 419
          /\ ~tc.arguments.json
          /\ pc' = "crashed"
          /\ ResetCall
          /\ UNCHANGED <<turn, messages, tcIdx, log_threads>>
       \/ \* a handler other than place_trade_orders returns
          /\ tc.arguments.json
          /\ tc.name # "place_trade_orders"
          /\ Answer("result")
          /\ handler' = "finished"
          /\ ordIdx' = 0
          /\ res_content' = <<>>
          /\ submitted' = <<>>
          /\ trades' = <<>>
          /\ validated' = <<>>
          /\ executed' = <<>>
          /\ journaled' = <<>>
          /\ UNCHANGED log_threads
       \/ \* a handler other than place_trade_orders raises
          /\ tc.arguments.json
          /\ tc.name # "place_trade_orders"
          /\ Raise
          /\ submitted' = <<>>
          /\ trades' = <<>>
          /\ validated' = <<>>
          /\ executed' = <<>>
          /\ journaled' = <<>>
       \/ \* place_trade_orders with no trades
          /\ tc.arguments.json
          /\ tc.name = "place_trade_orders"
          /\ CapTrades(tc.arguments.trades) = <<>>
          /\ Answer(FinalContent(<<>>))
          /\ submitted' = tc.arguments.trades
          /\ trades' = <<>>
          /\ handler' = "finished"
          /\ UNCHANGED <<ordIdx, res_content, validated, executed, journaled,
                         log_threads>>
       \/ \* place_trade_orders: lines 501-508
          /\ tc.arguments.json
          /\ tc.name = "place_trade_orders"
          /\ CapTrades(tc.arguments.trades) # <<>>
          /\ submitted' = tc.arguments.trades
          /\ trades' = CapTrades(tc.arguments.trades)
          /\ ordIdx' = 1
          /\ res_content' = <<>>
          /\ handler' = "running"
          /\ validated' = <<>>
          /\ executed' = <<>>
          /\ journaled' = <<>>
          /\ pc' = "orders"
          /\ UNCHANGED <<turn, messages, tcIdx, log_threads>>
    /\ UNCHANGED <<now, last_trade_times, riskVars, apartVars, unfilled, earlySignal, running, cycle, tool_calls,
                   callsIssued, nExecuted, agent, nRequests, nDispatches,
                   sleepLeft, response, market, tools, cloud_client>>

\* after the body of the loop of line 509: the next order or lines 537-538
Continue(reports) ==
    /\ res_content' = reports
    /\ IF ordIdx = Len(trades)
       THEN /\ Answer(FinalContent(reports))
            /\ handler' = "finished"
            /\ ordIdx' = ordIdx
       ELSE /\ ordIdx' = ordIdx + 1
            /\ UNCHANGED <<pc, turn, messages, tcIdx, handler>>

\* line 520: execute_trade is called and what it returns is dropped; the
\* order went out with the side of OrderSide, or it did not go out at all
Submit(t, filled) ==
    /\ executed' = Append(executed,
                      [idx |-> ordIdx, order |-> t,
                       side |-> OrderSide(t.action), filled |-> filled])
    /\ nExecuted' = nExecuted + 1
    /\ unfilled' = IF OrderSide(t.action) # "BUY" THEN unfilled
                   ELSE IF filled THEN unfilled \ {t.ticker}
                   ELSE unfilled \cup {t.ticker}

\* lines 509-535: one order of place_trade_orders
ProcessOrder ==
    /\ pc = "orders"
    /\ LET t == trades[ordIdx] IN
       \/ \* t['shares'] raises
          /\ t.shares = Missing
          /\ Raise
          /\ UNCHANGED <<last_trade_times, validated, executed, journaled,
                         nExecuted, unfilled>>
       \/ /\ t.shares # Missing
          /\ \E env \in LiveEnvs :
                LET r == validate_order(t.ticker, t.action, t.shares,
                                        Held(env, t.ticker), last_trade_times,
                                        now)
                IN /\ last_trade_times' = r.table
                   /\ validated' = Append(validated,
                                     [idx |-> ordIdx, order |-> t,
                                      approved |-> r.approved])
                   /\ \/ \* rejected: lines 513-517
                         /\ ~ExecutesOrder(r.approved)
                         /\ log_threads' = CloudLog_log(log_threads, cloud_client)
                         /\ Continue(Append(res_content,
                                            Rejection(t.ticker, r.reason)))
                         /\ UNCHANGED <<executed, journaled, nExecuted,
                                        unfilled>>
                      \/ \* executed and journaled: lines 520-535
                         /\ ExecutesOrder(r.approved)
                         /\ \E filled \in SubmitOutcomes(brokerage) :
                               Submit(t, filled)
                         /\ journaled' = Append(journaled,
                                            [idx |-> ordIdx, order |-> t])
                         /\ log_threads' = CloudLog_log(log_threads, cloud_client)
                         /\ Continue(res_content)
                      \/ \* executed, then journal.log_trade raises
                         /\ ExecutesOrder(r.approved)
                         /\ \E filled \in SubmitOutcomes(brokerage) :
                               Submit(t, filled)
                         /\ Raise
                         /\ UNCHANGED journaled
    /\ UNCHANGED <<now, riskVars, apartVars, earlySignal, running, cycle, tool_calls, submitted, trades,
                   callsIssued, agent, nRequests, nDispatches, sleepLeft,
                   response, market, tools, cloud_client>>

\* lines 198-202: run_agent_loop has returned and its locals are gone; the
\* sleep loop starts
EndCycle ==
    /\ pc = "done"
    /\ pc' = "sleep"
    /\ sleepLeft' = PollTicks
    /\ messages' = <<>>
    /\ tools' = {}
    /\ response' = "none"
    /\ tool_calls' = <<>>
    /\ tcIdx' = 0
    /\ turn' = 0
    /\ nExecuted' = 0
    /\ nRequests' = 0
    /\ nDispatches' = 0
    /\ ResetCall
    /\ UNCHANGED <<now, last_trade_times, riskVars, apartVars, unfilled, earlySignal, running, cycle, callsIssued,
                   agent, market, cloud_client, log_threads>>

\* lines 202-203: the head of the sleep loop
Sleep ==
    /\ pc = "sleep"
    /\ IF SleepEnds(sleepLeft, running) THEN pc' = "loop" ELSE pc' = "tick"
    /\ UNCHANGED <<now, last_trade_times, riskVars, apartVars, unfilled, earlySignal, running, cycle, turn,
                   messages, tool_calls, tcIdx, callVars, callsIssued, nExecuted,
                   agent, nRequests, nDispatches, sleepLeft, response, market,
                   tools, cloud_client, log_threads>>

\* line 204: time.sleep(1) returns
SleepTick ==
    /\ pc = "tick"
    /\ pc' = "sleep"
    /\ sleepLeft' = sleepLeft - 1
    /\ UNCHANGED <<now, last_trade_times, riskVars, apartVars, unfilled, earlySignal, running, cycle, turn,
                   messages, tool_calls, tcIdx, callVars, callsIssued, nExecuted,
                   agent, nRequests, nDispatches, response, market, tools,
                   cloud_client, log_threads>>

\* the threads left running once one of them has ended; of a count that
\* stands at the bound, more than one thread may remain
ThreadsLeft(threads) ==
    IF threads = MaxLogThreads THEN {threads - 1, threads} ELSE {threads - 1}

LogSend_failure_propagates ==
    /\ log_threads > 0
    /\ log_threads' \in ThreadsLeft(log_threads)
    /\ \E sent \in BOOLEAN : pc' = IF sent THEN pc ELSE "crashed"
    /\ UNCHANGED <<now, last_trade_times, riskVars, apartVars, unfilled, earlySignal, running, cycle, turn,
                   messages, tool_calls, tcIdx, callVars, callsIssued, nExecuted,
                   agent, nRequests, nDispatches, sleepLeft, response, market,
                   tools, cloud_client>>

LogSend_resets_table ==
    /\ log_threads > 0
    /\ log_threads' \in ThreadsLeft(log_threads)
    /\ last_trade_times' = [k \in Keys |-> NoTime]
    /\ UNCHANGED <<now, riskVars, apartVars, unfilled, earlySignal, running, pc, cycle, turn, messages,
                   tool_calls, tcIdx, callVars, callsIssued, nExecuted, agent,
                   nRequests, nDispatches, sleepLeft, response, market, tools,
                   cloud_client>>

\* cloud_log.py lines 19-28: a _send thread runs to its end: the insert
\* returns, or it raises and the exception is caught and printed
LogSend ==
    /\ log_threads > 0
    /\ log_threads' \in ThreadsLeft(log_threads)
    /\ UNCHANGED <<now, last_trade_times, riskVars, apartVars, unfilled, earlySignal, running, pc, cycle, turn,
                   messages, tool_calls, tcIdx, callVars, callsIssued, nExecuted,
                   agent, nRequests, nDispatches, sleepLeft, response, market,
                   tools, cloud_client>>

Next ==
    \/ Signal
    \/ TimePasses
    \/ StartIteration
    \/ ModelRequest
    \/ DispatchToolCall
    \/ ProcessOrder
    \/ EndCycle
    \/ Sleep
    \/ SleepTick

Spec == Init /\ [][Next]_vars

(***************************************************************************)
(* SpecLoop: the same program driven by the polling model, which keeps     *)
(* asking for tools up to the turn limit.  The process is one thread: a    *)
(* step that can be taken is taken, unless the program waits for the       *)
(* market to open.                                                         *)
(***************************************************************************)
InitLoop == InitRisk /\ InitLive /\ NoCloud /\ Apart /\ agent = "polling"

NextLoop ==
    \/ Signal
    \/ StartIteration
    \/ ModelRequest
    \/ DispatchToolCall
    \/ EndCycle
    \/ Sleep
    \/ SleepTick

SpecLoop ==
    /\ InitLoop
    /\ [][NextLoop]_vars
    /\ WF_vars(ModelRequest)
    /\ WF_vars(DispatchToolCall)
    /\ WF_vars(EndCycle)
    /\ WF_vars(Sleep)
    /\ WF_vars(SleepTick)
    /\ WF_vars(StartIteration /\ ~running)

(***************************************************************************)
(* SpecLog: the program with the remote logger configured, driven by the   *)
(* model that issues one tool call per response.  run() has logged its     *)
(* start (line 93) and no signal arrives.  The main thread is scheduled as *)
(* in SpecLoop; nothing is assumed of the _send threads, which may take    *)
(* any time or never end.                                                  *)
(***************************************************************************)
InitLog ==
    /\ InitRisk
    /\ InitLive
    /\ cloud_client = TRUE
    /\ log_threads = CloudLog_log(0, TRUE)
    /\ Apart
    /\ agent = "single"

NextLog ==
    \/ StartIteration
    \/ ModelRequest
    \/ DispatchToolCall
    \/ ProcessOrder
    \/ EndCycle
    \/ Sleep
    \/ SleepTick
    \/ LogSend

SpecLog ==
    /\ InitLog
    /\ [][NextLog]_vars
    /\ WF_vars(ModelRequest)
    /\ WF_vars(DispatchToolCall)
    /\ WF_vars(ProcessOrder)
    /\ WF_vars(EndCycle)
    /\ WF_vars(Sleep)
    /\ WF_vars(SleepTick)

(***************************************************************************)
(* SpecBroker: the run loop and the dispatcher with the model that issues  *)
(* one tool call per response, against a brokerage whose submit_order may  *)
(* raise, so that execute_trade may return False.                          *)
(***************************************************************************)
InitBroker ==
    /\ InitRisk
    /\ InitLive
    /\ NoCloud
    /\ brokerage = "flaky"
    /\ NoJournal
    /\ NoNotes
    /\ NoSim
    /\ agent = "single"

NextBroker ==
    \/ TimePasses
    \/ StartIteration
    \/ ModelRequest
    \/ DispatchToolCall
    \/ ProcessOrder
    \/ EndCycle
    \/ Sleep
    \/ SleepTick

SpecBroker == InitBroker /\ [][NextBroker]_vars

(***************************************************************************)
(* SpecStop: the run loop and the dispatcher with the model that issues    *)
(* one tool call per response, and a signal that may arrive at any point.  *)
(* The main thread is scheduled as in SpecLoop.                            *)
(***************************************************************************)
InitStop == InitRisk /\ InitLive /\ NoCloud /\ Apart /\ agent = "single"

NextStop ==
    \/ Signal
    \/ StartIteration
    \/ ModelRequest
    \/ DispatchToolCall
    \/ ProcessOrder
    \/ EndCycle
    \/ Sleep
    \/ SleepTick

SpecStop ==
    /\ InitStop
    /\ [][NextStop]_vars
    /\ WF_vars(ModelRequest)
    /\ WF_vars(DispatchToolCall)
    /\ WF_vars(ProcessOrder)
    /\ WF_vars(EndCycle)
    /\ WF_vars(Sleep)
    /\ WF_vars(SleepTick)
    /\ WF_vars(StartIteration /\ ~running)


(***************************************************************************)
(* Properties of validate_order, checked under SpecRisk.                   *)
(***************************************************************************)
\* the step on which a validate_order call returns
Returns == riskPc = "called" /\ riskPc' = "idle"

CallNotional == call.order.shares * call.env.price

NotionalInRange == CallNotional >= 5000 /\ CallNotional <= 25000

\* the call read every value (no collaborator call raised) and the price,
\* notional, cash and exposure checks of a BUY pass on the values read
BuyChecksPass ==
    /\ call.done
    /\ call.order.action = "BUY"
    /\ call.env.fault = NoFault
    /\ call.env.price # NoPrice
    /\ NotionalInRange
    /\ CallNotional <= call.env.cash
    /\ (call.env.owned * call.env.price + CallNotional) * 5 <= call.env.value

\* C3 as stated: an approved SELL leaves the CooldownTable entry of its
\* ticker as it was before the call.
C3_SellLeavesTable ==
    (call.done /\ call.approved /\ call.order.action = "SELL")
        => last_trade_times[call.order.ticker] = call.before

\* C3 amended: validate_order writes the CooldownTable entry of the order's
\* ticker whenever it approves an order, whatever the action (an approved
\* SELL included), and writes nothing else; a BUY of a ticker validated less
\* than the cooldown window after any approved order of that ticker, a SELL
\* included, is rejected for cooldown when its other checks pass.
C3_ApprovalWritesTable ==
    /\ [][Returns =>
            last_trade_times' =
                IF call'.approved
                THEN [last_trade_times EXCEPT ![call'.order.ticker] = now]
                ELSE last_trade_times]_vars
    /\ [](BuyChecksPass /\ call.prevOk # NoTime /\ call.at - call.prevOk < 30
            => ~call.approved /\ call.reason = R_COOLDOWN)

\* an approved SELL has just written the entry of a ticker that had none
C3_Witness ==
    /\ call.done /\ call.approved /\ call.order.action = "SELL"
    /\ call.before = NoTime
    /\ last_trade_times[call.order.ticker] = call.at

\* C4: an order whose notional (shares x price) is below min_notional or
\* above max_notional is rejected, whatever the action, the account, the
\* holding, the cooldown table and the faults are.
C4_NotionalOutOfRangeRejected ==
    (call.done /\ (CallNotional < 5000 \/ CallNotional > 25000)) => ~call.approved

\* an order above the maximum, with nothing else wrong, was rejected for it
C4_Witness ==
    /\ call.done /\ call.env.fault = NoFault /\ CallNotional > 25000
    /\ call.env.cash >= CallNotional
    /\ ~call.approved /\ call.reason = R_MAX

\* C5: a BUY is approved only when the ticker has no approved BUY yet or its
\* last approved BUY is at least the cooldown window (30 minutes) back.
C5_ApprovedBuysWindowApart ==
    (call.done /\ call.order.action = "BUY" /\ call.prevBuy # NoTime
        /\ call.at - call.prevBuy < 30) => ~call.approved

\* a second BUY of a ticker is approved, 30 minutes after the first
C5_Witness ==
    /\ call.done /\ call.order.action = "BUY" /\ call.approved
    /\ call.prevBuy # NoTime /\ call.at - call.prevBuy = 30

\* C6 as stated: a BUY whose other checks pass is approved when the ticker
\* has no approved BUY yet or the last one is at least 30 minutes back.
C6_ApprovedAfterLastBuy ==
    (BuyChecksPass /\ (call.prevBuy = NoTime \/ call.at - call.prevBuy >= 30))
        => call.approved

\* C6 amended: a BUY whose price, notional, cash and exposure checks pass is
\* approved whenever no order of that ticker (BUY, SELL or any other action)
\* was approved before, or the last approved order of that ticker is at
\* least 30 minutes back; exactly 30 minutes is approved.
C6_ApprovedAfterLastOrder ==
    (BuyChecksPass /\ (call.prevOk = NoTime \/ call.at - call.prevOk >= 30))
        => call.approved

\* a BUY is approved exactly 30 minutes after the last approved order
C6_Witness ==
    /\ BuyChecksPass /\ call.approved
    /\ call.prevOk # NoTime /\ call.at - call.prevOk = 30

C8_RejectionKeepsTable ==
    [][(Returns /\ ~call'.approved) => last_trade_times' = last_trade_times]_vars

\* a BUY was rejected for cooldown and the entry it was checked against stays
C8_Witness ==
    /\ call.done /\ ~call.approved /\ call.reason = R_COOLDOWN
    /\ call.before # NoTime /\ call.before < call.at
    /\ last_trade_times[call.order.ticker] = call.before

\* the collaborator call that raises is one the call gets to make
FaultReached ==
    \/ call.env.fault = "get_price"
    \/ /\ call.env.fault \in {"get_total_value", "get_cash"}
       /\ call.env.price # NoPrice
    \/ /\ call.env.fault = "get_positions"
       /\ call.env.price # NoPrice
       /\ NotionalInRange
       /\ \/ call.order.action = "SELL"
          \/ call.order.action = "BUY" /\ CallNotional <= call.env.cash

\* C16: when a collaborator call made inside validate_order raises, the call
\* returns approved = false with the reason that reports the fault.
C16_FaultRejects ==
    (call.done /\ FaultReached) =>
        ~call.approved /\ call.reason = R_ERROR

\* get_positions raised for a SELL that had passed the size checks
C16_Witness ==
    /\ call.done /\ call.env.fault = "get_positions"
    /\ call.order.action = "SELL" /\ NotionalInRange
    /\ call.order.shares <= call.env.owned
    /\ ~call.approved /\ call.reason = R_ERROR

\* BUY 100 AAPL at 150 with a portfolio value of 100,000, nothing raising
C19_Scenario ==
    /\ call.done
    /\ call.order = [ticker |-> "AAPL", action |-> "BUY", shares |-> 100]
    /\ call.env.price = 150 /\ call.env.value = 100000
    /\ call.env.fault = NoFault

\* the BUY is repeated within 30 minutes of an approval of AAPL, in the
\* state the first BUY leaves: not yet filled, or filled
C19_Repeated ==
    /\ C19_Scenario
    /\ call.before # NoTime /\ call.at - call.before < 30
    /\ \/ call.env.cash = 100000 /\ call.env.owned = 0
       \/ call.env.cash = 85000 /\ call.env.owned = 100

C19_First ==
    /\ C19_Scenario
    /\ call.before = NoTime /\ call.env.cash = 100000 /\ call.env.owned = 0

\* C19 as stated: the first BUY is approved, and the repeated BUY is
\* rejected with the cooldown reason in both states.
C19_RepeatRejectedForCooldown ==
    /\ C19_First => call.approved
    /\ C19_Repeated => ~call.approved /\ call.reason = R_COOLDOWN

\* C19 amended: the first BUY is approved and the repeated BUY is rejected
\* in both states; the reason returned is the cooldown reason when the first
\* order has not been filled, and the exposure reason when it has been
\* filled (the holding plus the new order exceed 20% of the portfolio, and
\* exposure is checked before cooldown).
C19_RepeatRejected ==
    /\ C19_First => call.approved
    /\ C19_Repeated =>
          /\ ~call.approved
          /\ call.reason = IF call.env.owned = 0 THEN R_COOLDOWN ELSE R_EXPOSURE

\* the BUY is repeated at once after its approval, the first order filled
C19_Witness ==
    /\ C19_Repeated /\ call.env.owned = 100
    /\ call.prevBuy = call.at
    /\ ~call.approved /\ call.reason = R_EXPOSURE

\* C20 as stated: a SELL of a ticker of which 0 shares are owned is rejected
\* with the ownership reason, whatever its share count and price.
C20_SellOfNothingOwnershipReason ==
    (call.done /\ call.order.action = "SELL" /\ call.env.owned = 0
        /\ call.env.fault = NoFault /\ call.env.price # NoPrice)
        => ~call.approved /\ call.reason = R_OWN

\* C20 amended: a SELL of a ticker of which 0 shares are owned is always
\* rejected; the reason is the ownership reason when a price is available,
\* the notional lies within [minNotional, maxNotional] and no collaborator
\* call raises, and the notional reason when the notional lies outside.
C20_SellOfNothingRejected ==
    (call.done /\ call.order.action = "SELL" /\ call.env.owned = 0) =>
        /\ ~call.approved
        /\ (call.env.fault = NoFault /\ call.env.price # NoPrice) =>
              call.reason = IF CallNotional < 5000 THEN R_MIN
                            ELSE IF CallNotional > 25000 THEN R_MAX
                            ELSE R_OWN

\* a SELL of nothing owned, too small, was rejected for its notional
C20_Witness ==
    /\ call.done /\ call.order.action = "SELL" /\ call.env.owned = 0
    /\ call.env.fault = NoFault /\ call.env.price # NoPrice
    /\ CallNotional < 5000
    /\ ~call.approved /\ call.reason = R_MIN

(***************************************************************************)
(* Properties of run_agent_loop and handle_tool_calls, checked under Spec. *)
(***************************************************************************)
\* the tool messages of the history that carry the id
AnswersTo(id) ==
    {j \in 1..Len(messages) :
        messages[j].role = "tool" /\ messages[j].tool_call_id = id}

\* every tool call of every assistant message has exactly one answer
AllAnsweredOnce ==
    \A i \in 1..Len(messages) :
        \A k \in 1..Len(messages[i].tool_calls) :
            Cardinality(AnswersTo(messages[i].tool_calls[k].id)) = 1

\* C1: whenever handle_tool_calls is not under way (before every model
\* request, when the loop has ended, when run has ended), every tool call of
\* every assistant message is answered by exactly one tool message with its id.
C1_EveryToolCallAnswered ==
    pc \notin {"dispatch", "orders"} => AllAnsweredOnce

Orders_of(log) == [i \in 1..Len(log) |-> log[i].order]

Indexes(log) == {log[i].idx : i \in 1..Len(log)}

\* C2: an order is passed to execute_trade only in the step in which
\* validate_order approved the same ticker, action and shares, just before
\* it; an order validate_order rejects is neither executed nor journaled.
C2_ExecutedOnlyIfApproved ==
    /\ [](/\ \A i \in 1..Len(executed) :
                \E k \in 1..Len(validated) :
                    /\ validated[k].idx = executed[i].idx
                    /\ validated[k].order = executed[i].order
                    /\ validated[k].approved
          /\ \A k \in 1..Len(validated) :
                ~validated[k].approved =>
                    validated[k].idx \notin Indexes(executed) \cup Indexes(journaled)
          /\ Indexes(journaled) \subseteq Indexes(executed))
    /\ [][Len(executed') > Len(executed) =>
            /\ Len(validated') = Len(validated) + 1
            /\ validated'[Len(validated')].approved
            /\ validated'[Len(validated')].order = executed'[Len(executed')].order
            /\ validated'[Len(validated')].order = trades[ordIdx]]_vars

\* one call has met a rejection and an approval, and executed the approved
C2_Witness ==
    /\ handler = "finished"
    /\ \E k \in 1..Len(validated) : ~validated[k].approved
    /\ \E k \in 1..Len(validated) :
          validated[k].approved /\ validated[k].idx \in Indexes(journaled)

IsPrefix(a, b) == Len(a) <= Len(b) /\ a = SubSeq(b, 1, Len(a))

\* C9 as stated: a place_trade_orders call carrying more than 3 orders has,
\* when it is over, passed exactly the first 3 to validate_order and has
\* validated, executed and journaled none of the others.
C9_ExactlyFirstThree ==
    (handler \in {"finished", "raised"} /\ Len(submitted) > 3) =>
        /\ Orders_of(validated) = SubSeq(submitted, 1, 3)
        /\ Indexes(validated) \cup Indexes(executed) \cup Indexes(journaled)
              \subseteq 1..3

\* C9 amended: of more than 3 orders only the first 3 are considered: they
\* are passed to validate_order one after another in the submitted order,
\* all 3 unless the handling of one of them raises (which ends the call),
\* and orders 4..N are never validated, executed or journaled.
C9_OnlyFirstThree ==
    (handler # "idle" /\ Len(submitted) > 3) =>
        /\ IsPrefix(Orders_of(validated), SubSeq(submitted, 1, 3))
        /\ handler = "finished" => Orders_of(validated) = SubSeq(submitted, 1, 3)
        /\ Indexes(validated) \cup Indexes(executed) \cup Indexes(journaled)
              \subseteq 1..3

\* a call with more than 3 orders has ended after validating 3
C9_Witness ==
    /\ handler = "finished"
    /\ Len(submitted) > 3
    /\ Len(validated) = 3

\* C10: in one cycle at most 3 orders are executed, over all the
\* place_trade_orders calls of all its turns.
C10_AtMostThreePerCycle == nExecuted <= 3

(***************************************************************************)
(* Properties of run_agent_loop, of the dispatcher's error handling and of *)
(* the scheduler.                                                          *)
(***************************************************************************)
AssistantIdx == {i \in 1..Len(messages) : messages[i].role = "assistant"}

\* texts that contain "no trade" in some letter case
NoTradeTexts == {"no trade", "No Trade."}

\* the model has returned k responses carrying one tool call each and then
\* a text-only response containing "no trade"
ScriptRun(k) ==
    /\ Len(messages) > 0
    /\ messages[Len(messages)].role = "assistant"
    /\ messages[Len(messages)].tool_calls = <<>>
    /\ messages[Len(messages)].content \in NoTradeTexts
    /\ Cardinality(AssistantIdx) = k + 1
    /\ \A i \in AssistantIdx \ {Len(messages)} : Len(messages[i].tool_calls) = 1

\* C11: when the model has returned k < 10 responses carrying one tool call
\* each and then a text-only response containing "no trade" in any letter
\* case, run_agent_loop has ended after exactly k handle_tool_calls
\* invocations and exactly k + 1 model requests.
C11_ScriptedRun ==
    \A k \in 0..9 :
        ScriptRun(k) => pc = "done" /\ nDispatches = k /\ nRequests = k + 1

\* nine tool-call turns, then "No Trade." ended the loop
C11_Witness ==
    /\ ScriptRun(9)
    /\ messages[Len(messages)].content = "No Trade."
    /\ pc = "done"

\* the step on which a response with text and no tool calls is received
TextResponse ==
    /\ pc = "request"
    /\ Len(messages') = Len(messages) + 1
    /\ messages'[Len(messages')].role = "assistant"
    /\ messages'[Len(messages')].tool_calls = <<>>

\* C12 as stated: any response with text and no tool calls ends the loop.
C12_AnyTextEndsLoop == [][TextResponse => pc' = "done"]_vars

\* C12 amended: a response with text and no tool calls ends the loop only
\* when its text, lower-cased, contains "no trade"; any other text-only
\* response is appended to the history and the loop goes on to its next
\* turn, where a further model request is made while turns remain.
C12_OnlyNoTradeEndsLoop ==
    [][TextResponse =>
          IF messages'[Len(messages')].content \in NoTradeTexts
          THEN pc' = "done"
          ELSE pc' = "request" /\ turn' = turn + 1 /\ nRequests' = nRequests + 1]_vars

\* after a text-only response the model was asked again and answered
C12_Witness ==
    /\ Len(messages) >= 4
    /\ messages[3].role = "assistant"
    /\ messages[3].tool_calls = <<>>
    /\ messages[3].content = "hold"
    /\ messages[4].role = "assistant"
    /\ nRequests >= 2

\* C13: run_agent_loop makes at most 10 model requests in a cycle and always
\* ends, whatever the model answers.
C13_TenRequestsAndEnds ==
    /\ [](nRequests <= 10)
    /\ (pc = "request" ~> pc \in {"done", "crashed"})

\* the model asked for a tool on each of 10 turns and the loop ended
C13_Witness == pc = "done" /\ nRequests = 10 /\ nDispatches = 10

\* C14: outside handle_tool_calls, every tool call whose arguments do not
\* parse has been answered by a tool message with its id that reports the
\* error (and so the run has gone on past it).
C14_MalformedCallAnswered ==
    pc \notin {"dispatch", "orders"} =>
        \A i \in 1..Len(messages) :
            \A k \in 1..Len(messages[i].tool_calls) :
                ~messages[i].tool_calls[k].arguments.json =>
                    \E j \in 1..Len(messages) :
                        messages[j] =
                            ToolMessage(messages[i].tool_calls[k].id, "Tool Error")

\* the step on which the handler of the current tool call raises
HandlerRaises ==
    /\ pc \in {"dispatch", "orders"}
    /\ handler' = "raised"
    /\ (pc' # pc \/ tcIdx' # tcIdx \/ messages' # messages)

\* C15: when the handler of a tool call raises, a tool message with the id
\* of that call and the error as content is appended, and the dispatcher
\* goes on to the next tool call of the message, or returns to
\* run_agent_loop after the last one; the exception does not leave
\* handle_tool_calls.
C15_HandlerFaultAnswered ==
    [][HandlerRaises =>
          /\ messages' = Append(messages,
                            ToolMessage(tool_calls[tcIdx].id, "Tool Error"))
          /\ IF tcIdx < Len(tool_calls)
             THEN pc' = "dispatch" /\ tcIdx' = tcIdx + 1
             ELSE pc' = "request"]_vars

\* the first call of a message raised and the second was served after it
C15_Witness ==
    /\ pc = "request"
    /\ Len(tool_calls) = 2
    /\ Len(messages) >= 2
    /\ messages[Len(messages) - 1] = ToolMessage(tool_calls[1].id, "Tool Error")
    /\ messages[Len(messages)].role = "tool"
    /\ messages[Len(messages)].tool_call_id = tool_calls[2].id
    /\ messages[Len(messages)].content # "Tool Error"

\* C17: no fault of the model call, of a tool call or of a collaborator call
\* makes run() stop: an exception never leaves run().
C17_NoFaultStopsRun == pc # "crashed"

\* C18: once running is false no cycle is started; the head of the sleep
\* loop that finds running false leaves the sleep at once, so at most the
\* time.sleep(1) under way completes, and the while loop then ends; a
\* signal that arrives during the sleep is followed by the return of run().
C18_SignalEndsSleepAndRun ==
    /\ [][~running =>
            /\ cycle' = cycle
            /\ (pc = "sleep" /\ pc' # pc) => pc' = "loop"
            /\ (pc = "loop" /\ pc' # pc) => pc' = "exit"]_vars
    /\ ((~running /\ pc \in {"sleep", "tick"}) ~> pc = "exit")

\* run() has returned after a sleep that was cut short after its first second
C18_Witness == pc = "exit" /\ ~running /\ cycle > 0 /\ sleepLeft = 1

(***************************************************************************)
(* Properties of the end of run_agent_loop, of the order of dispatch and   *)
(* of the scheduler's gate.                                                *)
(***************************************************************************)
\* C21: a model request that raises ends run_agent_loop for the cycle: the
\* step makes that one request, leaves the history as it was and takes the
\* loop to its end; from then on, until run_agent_loop has returned to the
\* scheduler (which goes to its sleep), no model request is made (the
\* request is not retried) and no tool call is dispatched; the exception
\* does not leave run_agent_loop.
C21_ApiFaultEndsLoop ==
    /\ [][(pc = "request" /\ response' = "fault") =>
            /\ pc' = "done"
            /\ nRequests' = nRequests + 1
            /\ UNCHANGED <<messages, nDispatches, tool_calls, tcIdx>>]_vars
    /\ [][response = "fault" =>
            \/ UNCHANGED <<pc, response, messages, nRequests, nDispatches>>
            \/ pc' = "sleep" /\ response' = "none"]_vars
    /\ [](response = "fault" => pc = "done")

\* the second request of a cycle raised, after a turn of tool calls
C21_Witness ==
    /\ pc = "done" /\ response = "fault"
    /\ nRequests = 2 /\ nDispatches = 1
    /\ messages[Len(messages)].role = "tool"

\* the assistant message whose tool calls handle_tool_calls is serving
LastAssistant == CHOOSE i \in AssistantIdx : \A j \in AssistantIdx : j <= i

\* C22: the tool calls of one assistant message are dispatched one after
\* another in the order the model issued them: while handle_tool_calls runs,
\* the call it serves is the first one not yet answered, and a step answers
\* that call and no other; the tool messages follow their assistant message
\* in the order of its calls, identical calls included, and once
\* handle_tool_calls has returned there is one for every call.
C22_DispatchedInOrder ==
    /\ [](\A i \in 1..Len(messages) :
             \A k \in 1..Len(messages[i].tool_calls) :
                i + k <= Len(messages) =>
                   /\ messages[i + k].role = "tool"
                   /\ messages[i + k].tool_call_id = messages[i].tool_calls[k].id)
    /\ [](pc \in {"dispatch", "orders"} =>
             /\ messages[LastAssistant].tool_calls = tool_calls
             /\ Len(messages) = LastAssistant + tcIdx - 1)
    /\ [](pc \in {"request", "done"} =>
             \A i \in 1..Len(messages) :
                i + Len(messages[i].tool_calls) <= Len(messages))
    /\ [][(pc \in {"dispatch", "orders"} /\ messages' # messages) =>
             /\ Len(messages') = Len(messages) + 1
             /\ SubSeq(messages', 1, Len(messages)) = messages
             /\ messages'[Len(messages')].tool_call_id = tool_calls[tcIdx].id
             /\ IF tcIdx < Len(tool_calls)
                THEN tcIdx' = tcIdx + 1 /\ pc' = "dispatch"
                ELSE pc' = "request"]_vars

\* two identical calls of one message were both answered, in their order
C22_Witness ==
    /\ pc = "request"
    /\ Len(tool_calls) = 2
    /\ tool_calls[1].name = tool_calls[2].name
    /\ tool_calls[1].arguments = tool_calls[2].arguments
    /\ tool_calls[1].name = "place_trade_orders"
    /\ tool_calls[1].id # tool_calls[2].id
    /\ Len(messages) = LastAssistant + 2
    /\ messages[Len(messages) - 1].tool_call_id = tool_calls[1].id
    /\ messages[Len(messages)].tool_call_id = tool_calls[2].id

\* the step on which run() calls run_agent_loop
Invokes == pc = "loop" /\ pc' = "request"

\* C23: run_agent_loop is called, and so a model request is made or an order
\* handled, only in an iteration of run() whose is_market_open() poll
\* returned true; an iteration whose poll returned false gathers no context,
\* makes no request and goes back to the head of the loop to poll again; an
\* iteration calls run_agent_loop once, and the next call is made only after
\* that one has returned and the sleep has ended.
C23_RunsOnlyWhenMarketOpen ==
    /\ [](pc \in {"request", "dispatch", "orders", "done"} => market = "open")
    /\ [][(nRequests' > nRequests \/ nExecuted' > nExecuted
              \/ Len(validated') > Len(validated)) => market = "open"]_vars
    /\ [][(pc = "loop" /\ market' = "closed") =>
             /\ pc' # "request"
             /\ market # "closed" => pc' = "loop"
             /\ UNCHANGED <<cycle, messages, tools, nRequests, nDispatches,
                            nExecuted, last_trade_times>>]_vars
    /\ [][Invokes =>
             /\ market' = "open"
             /\ cycle' = cycle + 1
             /\ messages = <<>> /\ tool_calls = <<>> /\ handler = "idle"
             /\ messages' = InitialMessages
             /\ nRequests' = 0]_vars
    /\ [][cycle' # cycle => Invokes]_vars
    /\ [][(pc' = "request" /\ pc # "request") =>
             Invokes \/ pc \in {"dispatch", "orders"}]_vars
    /\ [][(pc' = "loop" /\ pc # "loop") => pc = "sleep"]_vars
    /\ [][(pc' = "sleep" /\ pc # "sleep") => pc \in {"done", "tick"}]_vars

\* after one cycle and its sleep the market was found closed: run() is back
\* at the head of its loop and no second cycle has started
C23_Witness ==
    /\ pc = "loop" /\ running /\ market = "closed"
    /\ cycle = 1 /\ now > 0
    /\ messages = <<>> /\ nRequests = 0

(***************************************************************************)
(* Properties of the remote logger, checked under SpecLog.                 *)
(***************************************************************************)
\* the step on which a _send thread ends, its insert done or failed
SendEnds == log_threads' < log_threads

\* C24: CloudLog.log returns with its _send thread still running: the step
\* of the main thread that makes the call goes on to what follows it; the
\* end of a _send thread, its insert done or failed, changes nothing of the
\* main thread (where it stands, the result of the tool call under way, the
\* history); and whatever time the threads take, should they never end, the
\* main thread runs on: a cycle under way reaches the end of run_agent_loop
\* (or the exception of a tool call the program cannot read ends it) and a
\* cycle that has ended reaches its sleep.
C24_LogNeverBlocks ==
    /\ [][log_threads' > log_threads =>
             /\ pc \in {"dispatch", "orders"}
             /\ pc' # "crashed"
             /\ (pc' # pc \/ tcIdx' # tcIdx \/ ordIdx' # ordIdx)]_vars
    /\ [][SendEnds =>
             UNCHANGED <<now, last_trade_times, riskVars, apartVars, unfilled, earlySignal, running, pc, cycle,
                         turn, messages, tool_calls, tcIdx, callVars,
                         callsIssued, nExecuted, nRequests, nDispatches,
                         sleepLeft, response, market, tools>>]_vars
    /\ ((log_threads > 0 /\ pc \in {"request", "dispatch", "orders"})
           ~> pc \in {"done", "crashed"})
    /\ ((log_threads > 0 /\ pc = "done") ~> pc = "sleep")

\* a place_trade_orders call has returned its result and the next turn has
\* come while the sends of its log records were still under way
C24_Witness ==
    /\ pc = "request" /\ turn = 1
    /\ handler = "finished" /\ Len(executed) = 3
    /\ log_threads >= 2
    /\ messages[Len(messages)].content = "All orders submitted"

\* the step on which place_trade_orders calls validate_order
ValidateStep ==
    /\ pc = "orders"
    /\ Len(validated') = Len(validated) + 1

\* C25: last_trade_times changes only on a step on which validate_order is
\* called, and then as validate_order writes it: the entry of the ticker of
\* an approved order is set to the current time and nothing else changes; a
\* rejected order, every other step of the dispatcher, of run_agent_loop and
\* of run(), and the end of a _send thread leave the table as it is, and the
\* end of a _send thread leaves the history as it is.
C25_TableChangesOnlyInValidate ==
    /\ [][last_trade_times' # last_trade_times =>
             /\ ValidateStep
             /\ validated'[Len(validated')].approved
             /\ last_trade_times' =
                   [last_trade_times EXCEPT ![trades[ordIdx].ticker] = now]]_vars
    /\ [][SendEnds => UNCHANGED <<last_trade_times, messages>>]_vars

\* an order was approved and entered in the table, the sends of its log
\* record and of an earlier one have ended, and the entry stands
C25_Witness ==
    /\ cloud_client /\ log_threads = 0
    /\ handler = "finished" /\ Len(executed) = 3
    /\ last_trade_times["MSFT"] = now
    /\ Len(messages) = 4

(***************************************************************************)
(* Further properties of validate_order, checked under SpecRisk.           *)
(***************************************************************************)
\* C26: every BUY that validate_order approves satisfied, on the price, the
\* cash, the holding and the portfolio value read during that call, both
\* notional <= cash and holding x price + notional <= 20% of the portfolio
\* value.
C26_ApprovedBuyWithinCashAndCap ==
    (call.done /\ call.approved /\ call.order.action = "BUY") =>
        /\ CallNotional <= call.env.cash
        /\ (call.env.owned * call.env.price + CallNotional) * 100
              <= 20 * call.env.value

\* a BUY that adds to a holding was approved: the holding counts 5000 of
\* the 10000 the position comes to
C26_Witness ==
    /\ call.done /\ call.approved /\ call.order.action = "BUY"
    /\ call.env.owned = 20 /\ call.env.price = 250 /\ call.order.shares = 20
    /\ call.env.cash = 10000

\* the reason of the first check that fails on the values the call read, in
\* the order price, notional, then cash, exposure, cooldown for a BUY and
\* ownership for a SELL
FirstFailingCheck ==
    IF call.env.price = NoPrice THEN R_PRICE
    ELSE IF CallNotional < 5000 THEN R_MIN
    ELSE IF CallNotional > 25000 THEN R_MAX
    ELSE IF call.order.action = "BUY" THEN
         IF CallNotional > call.env.cash THEN R_CASH
         ELSE IF (call.env.owned * call.env.price + CallNotional) * 5
                    > call.env.value THEN R_EXPOSURE
         ELSE IF call.before # NoTime /\ call.at - call.before < 30
              THEN R_COOLDOWN
         ELSE R_OK
    ELSE IF call.order.action = "SELL" THEN
         IF call.order.shares > call.env.owned THEN R_OWN ELSE R_OK
    ELSE R_OK

\* the check at which the positions are read is reached
PositionsRead ==
    /\ call.env.price # NoPrice
    /\ NotionalInRange
    /\ \/ call.order.action = "SELL"
       \/ call.order.action = "BUY" /\ CallNotional <= call.env.cash

\* C27 as stated: the reason returned is that of the first failing check
\* when no collaborator call raises, and an order whose price is available
\* and whose notional is out of range is rejected with the notional reason
\* even when a call of the portfolio collaborator raises.
C27_NotionalReasonDespiteFault ==
    /\ (call.done /\ call.env.fault = NoFault) => call.reason = FirstFailingCheck
    /\ (call.done /\ call.env.fault \in {"get_total_value", "get_cash",
                                          "get_positions"}
          /\ call.env.price # NoPrice /\ ~NotionalInRange)
        => call.reason = IF CallNotional < 5000 THEN R_MIN ELSE R_MAX

\* C27 amended: validate_order reads the price, then the portfolio value and
\* the cash, and applies its checks in the order price availability,
\* notional bounds, then cash, exposure, cooldown for a BUY and ownership
\* for a SELL, the positions being read after the cash check of a BUY and
\* after the notional check of a SELL; it returns the reason of the first
\* step of this sequence that fails, a read that raises failing with the
\* fault reason at its place.  An order whose notional is out of range is
\* rejected with the notional reason when the positions read would raise,
\* and with the fault reason when the portfolio value or the cash read
\* raises.
C27_FirstFailingStep ==
    call.done =>
        call.reason =
            IF call.env.fault = "get_price" THEN R_ERROR
            ELSE IF call.env.price = NoPrice THEN R_PRICE
            ELSE IF call.env.fault \in {"get_total_value", "get_cash"}
                 THEN R_ERROR
            ELSE IF call.env.fault = "get_positions" /\ PositionsRead
                 THEN R_ERROR
            ELSE FirstFailingCheck

\* the cash read raised for an order above the maximum notional
C27_Witness ==
    /\ call.done /\ call.env.fault = "get_cash"
    /\ call.env.price # NoPrice /\ CallNotional > 25000
    /\ ~call.approved /\ call.reason = R_ERROR

(***************************************************************************)
(* Properties of the conversation history, checked under Spec.             *)
(***************************************************************************)
\* C28: a response with no text and no tool calls ends run_agent_loop at
\* once: the step that receives it appends nothing to the history and
\* takes the loop to its end; from then on, until run_agent_loop has
\* returned, no tool call is dispatched and no model request is made.
C28_EmptyResponseEndsLoop ==
    /\ [][(pc = "request" /\ response' = "empty") =>
            /\ pc' = "done"
            /\ nRequests' = nRequests + 1
            /\ UNCHANGED <<messages, nDispatches, tool_calls, tcIdx>>]_vars
    /\ [][response = "empty" =>
            \/ UNCHANGED <<pc, response, messages, nRequests, nDispatches>>
            \/ pc' = "sleep" /\ response' = "none"]_vars
    /\ [](response = "empty" =>
            /\ pc = "done"
            /\ \A i \in 1..Len(messages) :
                  messages[i].role = "assistant" =>
                     messages[i].content # NoText \/ messages[i].tool_calls # <<>>)

\* the empty response came on the second turn, after a text that did not
\* end the loop
C28_Witness ==
    /\ pc = "done" /\ response = "empty"
    /\ nRequests = 2 /\ nDispatches = 0
    /\ Len(messages) = 3
    /\ messages[3].content = "hold"

\* run_agent_loop is under way
InCycle == pc \in {"request", "dispatch", "orders", "done"}

\* C29: while run_agent_loop is under way the history starts with one
\* system message followed by one user message and holds after them only
\* assistant and tool messages; every step leaves the history as it was or
\* appends to it, so that each model request sees the history of every
\* earlier request of the cycle as a prefix of its own; and the tool
\* catalog is the same for every request of the cycle.
C29_HistoryAppendOnly ==
    /\ [](InCycle =>
            /\ Len(messages) >= 2
            /\ messages[1].role = "system"
            /\ messages[2].role = "user"
            /\ \A i \in 3..Len(messages) :
                  messages[i].role \in {"assistant", "tool"}
            /\ tools = get_tools)
    /\ [][InCycle => IsPrefix(messages, messages') \/ pc' = "sleep"]_vars
    /\ [][(InCycle /\ InCycle') => tools' = tools]_vars

\* the second request of a cycle is about to be made on the history of the
\* first, extended by the assistant message and the results of its two calls
C29_Witness ==
    /\ pc = "request" /\ nRequests = 1 /\ turn = 1
    /\ Len(messages) = 5
    /\ SubSeq(messages, 1, 2) = InitialMessages
    /\ messages[3].role = "assistant"
    /\ messages[5].role = "tool"
    /\ tools = get_tools

\* an approval of the instrument is on record less than 30 minutes back,
\* under the ticker in some letter case
InstrumentInCooldown(ticker) ==
    \E k \in Keys :
        /\ upper(k) = upper(ticker)
        /\ last_trade_times[k] # NoTime
        /\ now - last_trade_times[k] < 30

\* C30: place_trade_orders passes every ticker to validate_order in upper
\* case, so that the checks of one instrument use one key whatever letter
\* case the model wrote: a BUY validated while an approval of the same
\* instrument, written in any letter case, is less than 30 minutes back is
\* rejected.
C30_OneKeyPerInstrument ==
    [][(ValidateStep /\ trades[ordIdx].action = "BUY"
           /\ InstrumentInCooldown(trades[ordIdx].ticker))
          => ~validated'[Len(validated')].approved]_vars

(***************************************************************************)
(* Properties of the place_trade_orders handler and of the brokerage       *)
(* submission.                                                             *)
(***************************************************************************)
\* the orders of the current call that validate_order rejected, in the
\* order of their validation
RejectedTickers ==
    LET rej == SelectSeq(validated, LAMBDA v : ~v.approved)
    IN [i \in 1..Len(rej) |-> rej[i].order.ticker]

\* C31: once a place_trade_orders call is over, its tool result names every
\* order of the batch that validate_order rejected, with its ticker and its
\* reason, whether the call ended by returning or by the exception of
\* another order.
C31_RejectionsReported ==
    (handler \in {"finished", "raised"} /\ RejectedTickers # <<>>) =>
        /\ [i \in 1..Len(res_content) |-> res_content[i].ticker] = RejectedTickers
        /\ \A i \in 1..Len(res_content) : res_content[i].reason # R_OK
        /\ messages[Len(messages)].role = "tool"
        /\ messages[Len(messages)].content = FinalContent(res_content)

\* C33: every order that goes to the brokerage as a sell was validated as a
\* SELL, the only action for which validate_order runs the ownership check,
\* and validate_order approves no order whose action is neither 'BUY' nor
\* 'SELL'.
C33_SellsPassedOwnership ==
    /\ \A k \in 1..Len(validated) :
           validated[k].approved => validated[k].order.action \in {"BUY", "SELL"}
    /\ \A i \in 1..Len(executed) :
           executed[i].side = "SELL" => executed[i].order.action = "SELL"

\* C34: an order is written to the journal only if execute_trade returned
\* True for it, and a call reports its orders as submitted only if
\* execute_trade returned True for every order it executed.
C34_JournaledOnlyIfFilled ==
    /\ \A j \in 1..Len(journaled) :
           \E i \in 1..Len(executed) :
               /\ executed[i].idx = journaled[j].idx
               /\ executed[i].filled
    /\ (/\ handler = "finished"
        /\ trades # <<>>
        /\ messages[Len(messages)].content = FinalContent(<<>>)) =>
           \A i \in 1..Len(executed) : executed[i].filled

\* the order validate_order has just been called for
Validated == validated'[Len(validated')]

\* C35: the approval of an order writes the cooldown entry of its ticker
\* whatever execute_trade then returns; while the last buy of a ticker was
\* not placed its entry stays, and a BUY of that ticker validated fewer than
\* cooldown_minutes after the entry is rejected and not executed.
C35_EntryWrittenAtApproval ==
    /\ [][(ValidateStep /\ Validated.approved) =>
             last_trade_times'[Validated.order.ticker] = now]_vars
    /\ [](\A k \in unfilled : last_trade_times[k] # NoTime)
    /\ [][(/\ ValidateStep
           /\ Validated.order.action = "BUY"
           /\ Validated.order.ticker \in unfilled
           /\ now - last_trade_times[Validated.order.ticker] < cooldown_minutes) =>
             /\ ~Validated.approved
             /\ UNCHANGED <<executed, last_trade_times, unfilled>>]_vars

\* a BUY was approved and its submission failed; the same BUY, tried again
\* inside the window, has been rejected for cooldown
C35_Witness ==
    /\ validated # <<>>
    /\ res_content # <<>>
    /\ LET v == validated[Len(validated)] IN
       /\ v.order.action = "BUY"
       /\ v.order.ticker \in unfilled
       /\ ~v.approved
       /\ res_content[Len(res_content)] = Rejection(v.order.ticker, R_COOLDOWN)
       /\ now - last_trade_times[v.order.ticker] < cooldown_minutes

(***************************************************************************)
(* SpecJournal: a TradingJournal built with or without credentials, and    *)
(* any sequence of log_trade calls on it.  The remote insert succeeds or   *)
(* raises; the local file can be read or not, and written or not.          *)
(***************************************************************************)
InitJournal ==
    /\ InitRisk
    /\ InitLive
    /\ NoCloud
    /\ BrokerUp
    /\ NoNotes
    /\ NoSim
    /\ agent = "free"
    /\ \E credentials \in BOOLEAN : journal = TradingJournal(credentials)

\* live_main.py line 525: journal.log_trade(...)
LogTrade ==
    /\ Len(journal.remote) < MaxEntries
    /\ Len(journal.local) < MaxEntries
    /\ \E entry \in JournalEntries, inserted \in BOOLEAN,
          readable \in BOOLEAN, writable \in BOOLEAN :
           journal' = log_trade(journal, entry, inserted, readable, writable)
    /\ UNCHANGED <<now, last_trade_times, riskVars, liveVars, brokerage, notes,
                   sim_portfolio>>

NextJournal == LogTrade

SpecJournal == InitJournal /\ [][NextJournal]_vars

\* C32: when the journal has a remote client and the remote insert of a
\* log_trade call fails, the call returns without raising and its entry is
\* the last one of the local journal.
C32_FallsBackToLocal ==
    (journal.client /\ journal.insert = "failed") =>
        /\ journal.outcome = "returned"
        /\ journal.local # <<>>
        /\ journal.local[Len(journal.local)] = journal.entry

\* C36: a signal does not cut a cycle short.  run_agent_loop and the
\* dispatcher go on step by step whether running is true or false: the cycle
\* is left only when run_agent_loop returns, which it does only from its
\* loop head, at the turn limit or after a response that is a fault, empty
\* or a text, or when an exception leaves run().  After a signal that came
\* during the cycle the sleep loop is left at its first check, without a
\* time.sleep(1), no further cycle starts, and run() returns unless an
\* exception has left it.
C36_SignalDoesNotStopCycle ==
    /\ [][(pc \in {"request", "dispatch", "orders"} /\ pc' # pc) =>
             /\ pc' \in {"request", "dispatch", "orders", "done", "crashed"}
             /\ pc' = "done" =>
                    /\ pc = "request"
                    /\ \/ turn = MAX_TURNS
                       \/ /\ nRequests' = nRequests + 1
                          /\ response' \in {"fault", "empty", "text"}]_vars
    /\ [][(~running /\ pc = "done") => pc' \in {"done", "sleep"}]_vars
    /\ [](earlySignal =>
             /\ pc # "tick"
             /\ pc \in {"sleep", "loop", "exit"} => sleepLeft = PollTicks)
    /\ [][earlySignal => cycle' = cycle]_vars
    /\ ((~running /\ InCycle) ~> pc \in {"exit", "crashed"})

\* the signal came before the first request of a cycle; the cycle has made
\* two requests and has sent an order to the brokerage all the same
C36_Witness ==
    /\ earlySignal
    /\ ~running
    /\ pc = "done"
    /\ nRequests >= 2
    /\ nExecuted >= 1
    /\ turn < MAX_TURNS

(***************************************************************************)
(* SpecNotes: a TradingNotes built with or without credentials, and any    *)
(* sequence of update_shared_notes calls.  The select of get_notes and the *)
(* update of update_notes each succeed or raise.                           *)
(***************************************************************************)
InitNotes ==
    /\ InitRisk
    /\ InitLive
    /\ NoCloud
    /\ BrokerUp
    /\ NoJournal
    /\ NoSim
    /\ agent = "free"
    /\ \E credentials \in BOOLEAN : notes = TradingNotes(credentials)

\* live_main.py lines 540-553: the handler of update_shared_notes
UpdateSharedNotes ==
    /\ Len(notes.content) < MaxNoteLines
    /\ \E content \in NoteTexts, mode \in {"append", "overwrite"},
          readable \in BOOLEAN, writable \in BOOLEAN :
           LET after == IF mode = "overwrite"
                        THEN update_notes(notes, <<content>>, writable)
                        ELSE append_notes(notes, content, readable, writable)
           IN notes' = [after EXCEPT !.mode = mode, !.text = content,
                                     !.read = IF mode = "overwrite" THEN "none"
                                              ELSE IF readable THEN "ok"
                                              ELSE "failed"]
    /\ UNCHANGED <<now, last_trade_times, riskVars, liveVars, brokerage,
                   journal, sim_portfolio>>

NextNotes == UpdateSharedNotes

SpecNotes == InitNotes /\ [][NextNotes]_vars

\* C37: append_notes never loses stored notes: after a call on notes that
\* are not empty the stored notes are the previous notes followed by the
\* appended line, or they are the previous notes.
C37_AppendKeepsNotes ==
    [][(notes.content # <<>> /\ notes'.mode = "append") =>
          \/ notes'.content = notes.content
          \/ notes'.content = Append(notes.content, notes'.text)]_vars

(***************************************************************************)
(* SpecPortfolio: a simulated Portfolio and any sequence of execute_trade  *)
(* calls on it, at positive prices.                                        *)
(***************************************************************************)
InitPortfolio ==
    /\ InitRisk
    /\ InitLive
    /\ NoCloud
    /\ BrokerUp
    /\ NoJournal
    /\ NoNotes
    /\ agent = "free"
    /\ \E start_cash \in StartCash : sim_portfolio = Portfolio(start_cash)

\* one call of Portfolio.execute_trade
ExecuteTrade ==
    /\ \E ticker \in Tickers, action \in SimActions, shares \in SimShares,
          price \in SimPrices :
           sim_portfolio' =
               execute_trade(sim_portfolio, ticker, action, shares, price)
    /\ Len(sim_portfolio'.history) <= MaxSimTrades
    /\ UNCHANGED <<now, last_trade_times, riskVars, liveVars, brokerage,
                   journal, notes>>

NextPortfolio == ExecuteTrade

SpecPortfolio == InitPortfolio /\ [][NextPortfolio]_vars

\* the trade of the call just made is one that validate_trade rejects
Rejected ==
    LET t == sim_portfolio'.trade
    IN validate_trade(sim_portfolio, t.ticker, t.action, t.shares, t.price) # V_OK

\* C38: on the simulated portfolio the cash is never negative and every
\* stored position is strictly positive; an execute_trade call whose trade
\* validate_trade rejects returns False and leaves cash, positions and
\* history as they were, and every other call returns True and adds one
\* record to the history.
C38_PortfolioInvariants ==
    /\ [](sim_portfolio.cash >= 0)
    /\ [](\A t \in DOMAIN sim_portfolio.positions :
              sim_portfolio.positions[t] > 0)
    /\ [][IF Rejected
          THEN /\ sim_portfolio'.result = "False"
               /\ sim_portfolio'.cash = sim_portfolio.cash
               /\ sim_portfolio'.positions = sim_portfolio.positions
               /\ sim_portfolio'.history = sim_portfolio.history
          ELSE /\ sim_portfolio'.result = "True"
               /\ Len(sim_portfolio'.history) = Len(sim_portfolio.history) + 1
         ]_vars

\* a position was sold down to nothing and its entry is gone, all the cash
\* has been spent, and the last call, a buy, was rejected
C38_Witness ==
    /\ sim_portfolio.cash = 0
    /\ sim_portfolio.result = "False"
    /\ upper(sim_portfolio.trade.action) = "BUY"
    /\ \E i \in 1..Len(sim_portfolio.history) :
          /\ sim_portfolio.history[i].action = "SELL"
          /\ sim_portfolio.history[i].ticker \notin DOMAIN sim_portfolio.positions

====
